---- MODULE Spec2Model ----
(***************************************************************************)
(* tasktrace: a TracedTask wraps a future; a TraceHandle sends capture     *)
(* requests over an unbounded mpsc channel, each carrying a oneshot reply  *)
(* sender.  TracedTask::poll takes at most one request per drive step,     *)
(* polls the inner future under a TracedWaker inside Trace::root and sends *)
(* the captured tree back.                                                 *)
(*                                                                         *)
(* The model covers src/src/lib.rs.  The channel primitives               *)
(* (futures_channel mpsc / oneshot, AtomicWaker) are modelled by their     *)
(* linearised behaviour at the call sites of lib.rs: a drive step and a    *)
(* send are each one atomic step.                                          *)
(***************************************************************************)
EXTENDS Integers, Sequences, FiniteSets, TLC

\* ---- bounds -------------------------------------------------------------
MaxCalls == 2        \* backtrace() calls made over one run
NumLeaves == 2       \* leaf futures joined by the inner task (fiz, buz)

Calls == 1..MaxCalls
Leaves == 1..NumLeaves

VARIABLES
    task,        \* "created" | "scheduled" | "parked" | "finished" | "dropped"
    handle,      \* TraceHandle / req_tx: "alive" | "dropped"
    queue,       \* req_rx message queue: sequence of call ids (TraceRequest)
    recvTask,    \* waker registered in the channel's recv_task: "none" | "ambient" | "traced"
    leaf,        \* per leaf: "pending" | "fired" | "done"
    leafWaker,   \* owned waker a leaf holds: "none" | "ambient" | "traced"
    pc,          \* per call: "unissued" | "waiting" | "done" | "abandoned"
    slot,        \* oneshot channel per call: "none" | "open" | "fulfilled" | "closed"
    reply,       \* tree stored in the oneshot slot (sequence of frames)
    res,         \* what backtrace() returned: "-" | "None" | "Some"
    tree,        \* the tree returned inside Some
    how,         \* path of the return: "-" | "send_err" | "canceled" | "reply"
    after,       \* per call: the calls that had returned when it was issued
    ncap,        \* number of Trace::root scopes opened so far
    capOf,       \* per call: the capture (1..) whose tree went into its slot, 0 if none
    trapped,     \* wake_raw / drop_raw unreachable!() was hit
    last         \* record of the drive step just taken, NoStep after any other step

vars == <<task, handle, queue, recvTask, leaf, leafWaker, pc, slot,
          reply, res, tree, how, after, ncap, capOf, trapped, last>>

NoStep ==
    [polled |-> FALSE, atStart |-> <<>>, req |-> 0, scope |-> FALSE,
     cx |-> "none", inner |-> 0, innerResult |-> "none", returned |-> "none",
     unwrapped |-> "none", frames |-> <<>>, delivered |-> {}, leafCalls |-> 0,
     wakerOps |-> 0, suspended |-> {}, checkCx |-> "none", checkLeaf |-> FALSE,
     plainWakers |-> <<>>, plainWoke |-> FALSE, panicked |-> FALSE]

\* ---- wakers (lib.rs 152-189) ---------------------------------------------

\* Variant of clone_raw that hands out another TracedWaker-backed waker.
clone_raw_keeps_wrapper == "traced"

\* clone_raw: the clone of a TracedWaker is a clone of the wrapped waker.
clone_raw == "ambient"

\* Variant of clone_raw that does not call Trace::leaf.
WakerCloneNoLeaf(cx) ==
    IF cx = "traced" THEN [waker |-> clone_raw, leaf |-> FALSE]
                     ELSE [waker |-> cx, leaf |-> FALSE]

\* Waker::clone on the context waker: the waker produced and whether
\* Trace::leaf ran.
WakerClone(cx) ==
    IF cx = "traced" THEN [waker |-> clone_raw, leaf |-> TRUE]
                     ELSE [waker |-> cx, leaf |-> FALSE]

\* Variant of wake_by_ref_raw that records the frame but does not wake the
\* wrapped waker.
WakeByRefNoDelegate(cx) == [leaf |-> cx = "traced", woke |-> cx # "traced"]

\* Waker::wake_by_ref on the context waker: whether Trace::leaf ran; the
\* ambient waker is woken in both forms.
WakeByRef(cx) == [leaf |-> cx = "traced", woke |-> TRUE]

\* wake_raw / drop_raw: consuming or dropping an owned waker backed by a
\* TracedWaker hits unreachable!().
Traps(w) == w = "traced"

\* ---- the inner task: join of the leaves (tests, lib.rs 203-230) -----------

\* What a suspended leaf does with the context waker when polled: clone and
\* keep it (pending() of the tests) or wake it by reference (a yield).
LeafOps == {"clone", "wake_by_ref"}

\* One leaf polled with context waker cx; st accumulates the effects.
PollLeaf(st, l, cx, op) ==
    IF st.leaf[l] = "done" THEN st
    ELSE IF st.leaf[l] = "fired" THEN
        [st EXCEPT !.leaf[l] = "done",
                   !.leafWaker[l] = "none",
                   !.trap = @ \/ Traps(st.leafWaker[l])]
    ELSE IF op = "clone" THEN
        LET c == WakerClone(cx) IN
        [st EXCEPT !.leafWaker[l] = c.waker,
                   !.ops = @ + 1,
                   !.trap = @ \/ Traps(st.leafWaker[l]),
                   !.frames = IF c.leaf THEN Append(@, <<l, "clone">>) ELSE @]
    ELSE
        LET w == WakeByRef(cx) IN
        [st EXCEPT !.leaf[l] = "fired",
                   !.ops = @ + 1,
                   !.woke = @ \/ w.woke,
                   !.frames = IF w.leaf THEN Append(@, <<l, "wake_by_ref">>) ELSE @]

RECURSIVE PollLeaves(_, _, _, _)
PollLeaves(st, l, cx, ops) ==
    IF l > NumLeaves THEN st
    ELSE PollLeaves(PollLeaf(st, l, cx, ops[l]), l + 1, cx, ops)

\* fut.poll(cx): every unfinished branch of the join is polled once.
InnerPoll(lf, lw, cx, ops) ==
    LET st == PollLeaves([leaf |-> lf, leafWaker |-> lw, frames |-> <<>>,
                          ops |-> 0, woke |-> FALSE, trap |-> FALSE], 1, cx, ops)
    IN [leaf |-> st.leaf, leafWaker |-> st.leafWaker, frames |-> st.frames,
        ops |-> st.ops, woke |-> st.woke, trap |-> st.trap,
        result |-> IF \A l \in Leaves : st.leaf[l] = "done" THEN "Ready" ELSE "Pending"]

\* ---- the request channel (lib.rs 113, 135) -------------------------------

\* AtomicWaker::wake on recv_task: the registered waker is taken and woken.
WokenTask(t, w) == IF w # "none" /\ t = "parked" THEN "scheduled" ELSE t

\* Variant of poll_next that parks without registering the context waker.
PollNextNoRegister(q, rt, h, cx) ==
    IF q # <<>> THEN [res |-> "some", req |-> Head(q), queue |-> Tail(q),
                      recvTask |-> rt, trap |-> FALSE, leaf |-> FALSE]
    ELSE IF h = "alive" THEN [res |-> "pending", req |-> 0, queue |-> q,
                              recvTask |-> rt, trap |-> FALSE, leaf |-> FALSE]
    ELSE [res |-> "none", req |-> 0, queue |-> q, recvTask |-> rt, trap |-> FALSE,
          leaf |-> FALSE]

\* Variant of poll_next that hands over the whole queue at once.
PollNextDrains(q, rt, h, cx) ==
    IF q # <<>> THEN [res |-> "some", req |-> Head(q), queue |-> <<>>,
                      recvTask |-> rt, trap |-> FALSE, leaf |-> FALSE]
    ELSE IF h = "alive" THEN [res |-> "pending", req |-> 0, queue |-> q,
                              recvTask |-> WakerClone(cx).waker, trap |-> Traps(rt),
                              leaf |-> WakerClone(cx).leaf]
    ELSE [res |-> "none", req |-> 0, queue |-> q, recvTask |-> rt, trap |-> FALSE,
          leaf |-> FALSE]

\* req_rx.poll_next(cx): the head of the queue if there is one; otherwise a
\* clone of the context waker is registered, unless every sender is gone.
PollNext(q, rt, h, cx) ==
    IF q # <<>> THEN [res |-> "some", req |-> Head(q), queue |-> Tail(q),
                      recvTask |-> rt, trap |-> FALSE, leaf |-> FALSE]
    ELSE IF h = "alive" THEN [res |-> "pending", req |-> 0, queue |-> q,
                              recvTask |-> WakerClone(cx).waker, trap |-> Traps(rt),
                              leaf |-> WakerClone(cx).leaf]
    ELSE [res |-> "none", req |-> 0, queue |-> q, recvTask |-> rt, trap |-> FALSE,
          leaf |-> FALSE]

\* ---- traced() (lib.rs 99-104) ---------------------------------------------
Init ==
    /\ task = "created"
    /\ handle = "alive"
    /\ queue = <<>>
    /\ recvTask = "none"
    /\ leaf = [l \in Leaves |-> "pending"]
    /\ leafWaker = [l \in Leaves |-> "none"]
    /\ pc = [c \in Calls |-> "unissued"]
    /\ slot = [c \in Calls |-> "none"]
    /\ reply = [c \in Calls |-> <<>>]
    /\ res = [c \in Calls |-> "-"]
    /\ tree = [c \in Calls |-> <<>>]
    /\ how = [c \in Calls |-> "-"]
    /\ after = [c \in Calls |-> {}]
    /\ ncap = 0
    /\ capOf = [c \in Calls |-> 0]
    /\ trapped = FALSE
    /\ last = NoStep

\* tokio::spawn(foo_fut): the scheduler owns the task and will poll it.
Spawn ==
    /\ task = "created"
    /\ task' = "scheduled"
    /\ UNCHANGED <<handle, queue, recvTask, leaf, leafWaker, pc, slot,
                   reply, res, tree, how, after, ncap, capOf, trapped>>
    /\ last' = NoStep

\* ---- TracedTask::poll (lib.rs 132-149) -----------------------------------

\* Variant that runs the pending-check under the TracedWaker.
CheckCxTraced == "traced"

\* Context waker handed to req_rx.poll_next: the ambient cx of poll.
CheckCx == "ambient"

\* Which branch of the `if let` is taken for the outcome of poll_next.
Captures(pn) == pn.res = "some"

\* Variant that hands the TracedWaker to the inner poll in both branches.
InnerCxAlwaysTraced(capture) == "traced"

\* Context waker handed to the inner poll in each branch.
InnerCx(capture) == IF capture THEN "traced" ELSE "ambient"

\* Variant that reports Pending from every capture step.
PollResultPendingOnCapture(capture, r) == IF capture THEN "Pending" ELSE r

\* What poll returns given the inner poll's result.
PollResult(capture, r) == r

\* Variant of the reply that drops the request without sending the tree.
ReplySendLost(s, p) == s

\* req.0.send(trace): fulfils the slot unless the receiver is gone.
ReplySend(s, p) == IF p = "abandoned" THEN s ELSE "fulfilled"

\* Variant that unwraps the result of the send.
SendErrPanicsUnwrap(p) == p = "abandoned"

\* `let _ = req.0.send(trace)`: a failed send is ignored.
SendErrPanics(p) == FALSE

Poll ==
    /\ task = "scheduled"
    /\ \E ops \in [Leaves -> LeafOps] :
       LET pn == PollNext(queue, recvTask, handle, CheckCx)
           capture == Captures(pn)
           cx == InnerCx(capture)
           ip == InnerPoll(leaf, leafWaker, cx, ops)
           plain == InnerPoll(leaf, leafWaker, "ambient", ops)
           panic == capture /\ SendErrPanics(pc[pn.req])
           ret == IF panic THEN "Panic" ELSE PollResult(capture, ip.result)
           sent == capture /\ ReplySend(slot[pn.req], pc[pn.req]) = "fulfilled"
       IN
       /\ queue' = pn.queue
       /\ recvTask' = pn.recvTask
       /\ leaf' = ip.leaf
       /\ leafWaker' = ip.leafWaker
       /\ trapped' = (trapped \/ pn.trap \/ ip.trap)
       /\ ncap' = IF capture THEN ncap + 1 ELSE ncap
       /\ slot' = IF capture
                  THEN [slot EXCEPT ![pn.req] = ReplySend(@, pc[pn.req])]
                  ELSE slot
       /\ reply' = IF sent THEN [reply EXCEPT ![pn.req] = ip.frames] ELSE reply
       /\ capOf' = IF sent THEN [capOf EXCEPT ![pn.req] = ncap + 1] ELSE capOf
       /\ task' = IF ret \in {"Ready", "Panic"} THEN "finished"
                  ELSE IF ip.woke THEN "scheduled" ELSE "parked"
       /\ last' = [polled |-> TRUE, atStart |-> queue, req |-> pn.req,
                   scope |-> capture, cx |-> cx, inner |-> 1,
                   innerResult |-> ip.result, returned |-> ret,
                   unwrapped |-> plain.result,
                   frames |-> ip.frames,
                   delivered |-> IF sent THEN {pn.req} ELSE {},
                   leafCalls |-> Len(ip.frames),
                   wakerOps |-> ip.ops,
                   suspended |-> {l \in Leaves : leaf[l] = "pending"},
                   checkCx |-> CheckCx, checkLeaf |-> pn.leaf,
                   plainWakers |-> plain.leafWaker, plainWoke |-> plain.woke,
                   panicked |-> panic]
    /\ UNCHANGED <<handle, pc, res, tree, how, after>>

\* ---- leaves and the owner of the task ------------------------------------

\* The event a storing leaf waits for fires: its stored waker is consumed by
\* Waker::wake.
LeafEvent(l) ==
    /\ task \in {"scheduled", "parked"}
    /\ leaf[l] = "pending"
    /\ leafWaker[l] # "none"
    /\ leaf' = [leaf EXCEPT ![l] = "fired"]
    /\ leafWaker' = [leafWaker EXCEPT ![l] = "none"]
    /\ trapped' = (trapped \/ Traps(leafWaker[l]))
    /\ task' = WokenTask(task, leafWaker[l])
    /\ UNCHANGED <<handle, queue, recvTask, pc, slot, reply, res, tree,
                   how, after, ncap, capOf>>
    /\ last' = NoStep

\* Variant of the receiver drop that leaves the queued requests alive.
DrainOnDropLeaks(s, q) == s

\* Variant of the receiver drop that drops only the oldest queued request.
DrainOnDropHeadOnly(s, q) ==
    [c \in Calls |-> IF q # <<>> /\ Head(q) = c /\ s[c] = "open" THEN "closed" ELSE s[c]]

\* Drop of req_rx: the channel is closed and the queued requests are dropped
\* with their oneshot senders.
DrainOnDrop(s, q) ==
    [c \in Calls |->
        IF (\E i \in DOMAIN q : q[i] = c) /\ s[c] = "open" THEN "closed" ELSE s[c]]

\* The TracedTask is dropped: by the executor once it has returned Ready, or
\* abandoned by its owner before that.
DropTask ==
    /\ task # "dropped"
    /\ task' = "dropped"
    /\ slot' = DrainOnDrop(slot, queue)
    /\ queue' = <<>>
    /\ recvTask' = "none"
    /\ leafWaker' = [l \in Leaves |-> "none"]
    /\ trapped' = (trapped \/ Traps(recvTask) \/ \E l \in Leaves : Traps(leafWaker[l]))
    /\ UNCHANGED <<handle, leaf, pc, reply, res, tree, how, after, ncap,
                   capOf>>
    /\ last' = NoStep

\* ---- TraceHandle::backtrace (lib.rs 111-115) -----------------------------

\* Variant of unbounded_send that accepts a message on a closed channel.
SendOkOnClosed(t) == TRUE

\* unbounded_send fails once the receiver has been dropped.
SendOk(t) == t # "dropped"

\* The call and its first poll: the oneshot is created, the request is sent
\* (waking the registered receiver waker) and rx is awaited.
Backtrace(c) ==
    /\ handle = "alive"
    /\ pc[c] = "unissued"
    /\ \A d \in Calls : d < c => pc[d] # "unissued"
    /\ after' = [after EXCEPT ![c] = {d \in Calls : pc[d] = "done"}]
    /\ IF SendOk(task)
       THEN /\ queue' = Append(queue, c)
            /\ slot' = [slot EXCEPT ![c] = "open"]
            /\ pc' = [pc EXCEPT ![c] = "waiting"]
            /\ recvTask' = "none"
            /\ task' = WokenTask(task, recvTask)
            /\ trapped' = (trapped \/ Traps(recvTask))
            /\ UNCHANGED <<res, how>>
       ELSE /\ pc' = [pc EXCEPT ![c] = "done"]
            /\ res' = [res EXCEPT ![c] = "None"]
            /\ how' = [how EXCEPT ![c] = "send_err"]
            /\ UNCHANGED <<queue, slot, recvTask, task, trapped>>
    /\ UNCHANGED <<handle, leaf, leafWaker, reply, tree, ncap, capOf>>
    /\ last' = NoStep

\* rx.await completes: Ok(tree) becomes Some(tree), Canceled becomes None.
Resume(c) ==
    /\ pc[c] = "waiting"
    /\ slot[c] \in {"fulfilled", "closed"}
    /\ pc' = [pc EXCEPT ![c] = "done"]
    /\ res' = [res EXCEPT ![c] = IF slot[c] = "fulfilled" THEN "Some" ELSE "None"]
    /\ tree' = [tree EXCEPT ![c] = IF slot[c] = "fulfilled" THEN reply[c] ELSE <<>>]
    /\ how' = [how EXCEPT ![c] = IF slot[c] = "fulfilled" THEN "reply" ELSE "canceled"]
    /\ UNCHANGED <<task, handle, queue, recvTask, leaf, leafWaker, slot,
                   reply, after, ncap, capOf, trapped>>
    /\ last' = NoStep

\* The caller drops the backtrace() future while it is suspended on rx.
Abandon(c) ==
    /\ pc[c] = "waiting"
    /\ pc' = [pc EXCEPT ![c] = "abandoned"]
    /\ UNCHANGED <<task, handle, queue, recvTask, leaf, leafWaker, slot,
                   reply, res, tree, how, after, ncap, capOf, trapped>>
    /\ last' = NoStep

\* The TraceHandle is dropped (no backtrace() borrows it): the last sender
\* closes the channel and wakes the receiver.
DropHandle ==
    /\ handle = "alive"
    /\ \A c \in Calls : pc[c] # "waiting"
    /\ handle' = "dropped"
    /\ recvTask' = "none"
    /\ task' = WokenTask(task, recvTask)
    /\ trapped' = (trapped \/ Traps(recvTask))
    /\ UNCHANGED <<queue, leaf, leafWaker, pc, slot, reply, res, tree,
                   how, after, ncap, capOf>>
    /\ last' = NoStep

Next ==
    \/ Spawn
    \/ Poll
    \/ \E l \in Leaves : LeafEvent(l)
    \/ DropTask
    \/ \E c \in Calls : Backtrace(c)
    \/ \E c \in Calls : Resume(c)
    \/ \E c \in Calls : Abandon(c)
    \/ DropHandle

Spec == Init /\ [][Next]_vars

\* The scheduler re-polls a woken task, a requester woken by its oneshot is
\* resumed, and the executor drops a task that has returned Ready.
FairSpec ==
    /\ Spec
    /\ WF_vars(Poll)
    /\ \A c \in Calls : WF_vars(Resume(c))
    /\ WF_vars(task = "finished" /\ DropTask)

TypeOK ==
    /\ task \in {"created", "scheduled", "parked", "finished", "dropped"}
    /\ handle \in {"alive", "dropped"}
    /\ recvTask \in {"none", "ambient", "traced"}
    /\ \A c \in Calls : pc[c] \in {"unissued", "waiting", "done", "abandoned"}
    /\ \A c \in Calls : slot[c] \in {"none", "open", "fulfilled", "closed"}

\* ---- properties ----------------------------------------------------------

\* The wrapper is neither finished nor dropped.
Live == task \notin {"finished", "dropped"}

\* No further drive step is taken from here on.
NeverDrivenAgain == [](~last.polled)

\* C1: on a spawned wrapper whose inner task stays suspended, the first
\* backtrace() request eventually returns Some(tree), whether it was sent
\* before the first poll or after a poll that found the queue empty.
C1_SingleRequestResolves ==
    ([]Live /\ [](pc[1] # "abandoned"))
        => ((pc[1] = "waiting" /\ task # "created")
                ~> (pc[1] = "done" /\ res[1] = "Some"))

\* The first request returned the tree of the first capture while the
\* wrapper is still parked at its leaves.
C1_Witness ==
    /\ pc[1] = "done" /\ res[1] = "Some" /\ how[1] = "reply"
    /\ task = "parked" /\ capOf[1] = 1
    /\ \A l \in Leaves : leaf[l] = "pending"

\* C2: once the TracedTask is dropped, every call still waiting on an
\* unfulfilled reply slot eventually returns None.
C2_DropResolvesOutstanding ==
    /\ (task = "dropped")
          ~> (\A c \in Calls : ~(pc[c] = "waiting" /\ slot[c] # "fulfilled"))
    /\ [](\A c \in Calls :
            (task = "dropped" /\ pc[c] = "done" /\ slot[c] # "fulfilled")
                => res[c] = "None")
    /\ [](task = "dropped" => queue = <<>>)

\* A call that was queued on a driven wrapper returned None because the
\* wrapper was dropped.
C2_Witness ==
    /\ task = "dropped" /\ ncap > 0
    /\ \E c \in Calls : pc[c] = "done" /\ res[c] = "None" /\ how[c] = "canceled"

\* C3: a backtrace() call issued after the TracedTask was dropped returns
\* None in its first step, without a trap and without queueing a request.
C3_CallAfterDropReturnsNone ==
    [][\A c \in Calls :
          (task = "dropped" /\ pc[c] = "unissued" /\ pc'[c] # "unissued")
              => /\ pc'[c] = "done"
                 /\ res'[c] = "None"
                 /\ slot'[c] = "none"
                 /\ queue' = <<>>
                 /\ ~trapped']_vars

\* A call returned None because its send failed.
C3_Witness ==
    task = "dropped" /\ \E c \in Calls : pc[c] = "done" /\ how[c] = "send_err"

\* C4: every request in the queue at the start of a drive step is taken and
\* serviced by that drive step.
C4_AllPendingServicedInStep ==
    last.polled => \A i \in DOMAIN last.atStart : last.atStart[i] = last.req

\* C5: with the task suspended at the same storing leaves and no leaf waking
\* it, a second request issued after the first returned its tree also
\* returns Some, with an identical tree.
C5_SequentialCapturesIdentical ==
    ( /\ [](\A l \in Leaves : leaf[l] = "pending")
      /\ [](task # "dropped")
      /\ [](\A c \in Calls : pc[c] # "abandoned") )
        => \A c1, c2 \in Calls :
              (pc[c2] = "waiting" /\ c1 \in after[c2] /\ res[c1] = "Some")
                  ~> (pc[c2] = "done" /\ res[c2] = "Some" /\ tree[c2] = tree[c1])

\* C6: no request sits in the queue of a live, parked wrapper for which no
\* drive step is scheduled.
C6_NoStrandedRequest == ~(task = "parked" /\ queue # <<>>)

\* C7 as stated: a request on a wrapper that is never driven again
\* eventually returns None.
C7_NeverDrivenResolvesNone ==
    \A c \in Calls :
        []((pc[c] = "waiting" /\ slot[c] # "fulfilled" /\ NeverDrivenAgain)
              => <>(pc[c] = "abandoned" \/ (pc[c] = "done" /\ res[c] = "None")))

\* C7 amended: a request on a wrapper that is never driven again and is
\* dropped eventually returns None.
C7_DroppedUndrivenResolvesNone ==
    \A c \in Calls :
        []((pc[c] = "waiting" /\ slot[c] # "fulfilled" /\ NeverDrivenAgain
                /\ <>(task = "dropped"))
              => <>(pc[c] = "abandoned" \/ (pc[c] = "done" /\ res[c] = "None")))

\* A wrapper that was not driven after the first request was sent (it made
\* no capture) was dropped, and its second queued request returned None.
C7_Witness ==
    /\ task = "dropped" /\ ncap = 0
    /\ \E c \in Calls : c > 1 /\ pc[c] = "done" /\ how[c] = "canceled"

\* C8: every drive step polls the inner task exactly once and returns that
\* poll's result, which is the result the unwrapped task gives for the same
\* poll; the wrapper finishes exactly when a drive step returned Ready.
C8_DropInReplacement ==
    /\ last.polled =>
          /\ last.inner = 1
          /\ last.returned = last.innerResult
          /\ last.returned = last.unwrapped
    /\ last.polled => (task = "finished" <=> last.returned = "Ready")
    /\ last.polled => (task \in {"parked", "scheduled"} <=> last.returned = "Pending")

\* A capture step returned the inner task's Ready.
C8_Witness ==
    last.polled /\ last.scope /\ last.returned = "Ready" /\ task = "finished"

\* C9: a drive step that took no request opened no capture scope, recorded
\* no frame, delivered no tree and polled the inner task with the ambient
\* waker.
C9_NoRequestNoRecording ==
    (last.polled /\ last.req = 0) =>
        /\ ~last.scope
        /\ last.frames = <<>>
        /\ last.leafCalls = 0
        /\ last.delivered = {}
        /\ last.cx = "ambient"

\* A drive step without a request polled leaves that cloned and woke their
\* waker.
C9_Witness ==
    /\ last.polled /\ last.req = 0 /\ last.returned = "Pending"
    /\ \E l \in Leaves : leafWaker[l] = "ambient"
    /\ \E l \in Leaves : leaf[l] = "fired" /\ task = "scheduled"

\* C10: no owned waker is backed by a TracedWaker, the TracedWaker is used
\* only by the inner poll of a capture step, and wake_raw / drop_raw are
\* never reached.
C10_NoOwnedTracedWaker ==
    /\ recvTask # "traced"
    /\ \A l \in Leaves : leafWaker[l] # "traced"
    /\ last.cx = "traced" => last.scope
    /\ ~trapped

\* A leaf cloned the TracedWaker in a capture step and holds the clone.
C10_Witness ==
    /\ last.scope
    /\ \E l \in Leaves :
          /\ leafWaker[l] = "ambient"
          /\ \E i \in DOMAIN last.frames : last.frames[i] = <<l, "clone">>

\* The request of call c is in the request queue.
InQueue(c) == \E i \in DOMAIN queue : queue[i] = c

\* C11: the tree of a capture step holds exactly one frame per clone or
\* wake-by-reference made on the TracedWaker in that step, which is one
\* frame per leaf the task was suspended at, in poll order, and that tree
\* is what is delivered.
C11_OneFramePerWakerUse ==
    last.scope =>
        /\ Len(last.frames) = last.wakerOps
        /\ Len(last.frames) = Cardinality(last.suspended)
        /\ \A l \in last.suspended :
              Cardinality({i \in DOMAIN last.frames : last.frames[i][1] = l}) = 1
        /\ \A i, j \in DOMAIN last.frames :
              i < j => last.frames[i][1] < last.frames[j][1]
        /\ \A c \in last.delivered : reply[c] = last.frames

\* A capture of the task fanned out over two suspended leaves delivered a
\* tree with two branches.
C11_Witness ==
    /\ last.scope /\ last.delivered # {}
    /\ Cardinality(last.suspended) >= 2
    /\ Len(last.frames) = Cardinality(last.suspended)

\* C12: a drive step never panics and returns the inner task's result,
\* also when the request it takes was abandoned by its caller (the capture
\* is made, the failed send is ignored) and when the handle is dropped and
\* the queue is empty (the inner task is polled with the ambient waker).
C12_RequesterGoneHarmless ==
    last.polled =>
        /\ ~last.panicked
        /\ ~trapped
        /\ last.inner = 1
        /\ last.returned = last.unwrapped
        /\ (last.req # 0 /\ pc[last.req] = "abandoned") =>
              /\ last.scope
              /\ last.delivered = {}
              /\ ~InQueue(last.req)
        /\ (handle = "dropped" /\ last.atStart = <<>>) =>
              /\ ~last.scope
              /\ last.cx = "ambient"

\* With the handle dropped, a capture step consumed a request whose caller
\* had abandoned it.
C12_Witness ==
    /\ last.polled /\ handle = "dropped"
    /\ last.req # 0 /\ pc[last.req] = "abandoned"
    /\ last.returned \in {"Pending", "Ready"}

C14_WakeUnchangedByCapture ==
    /\ [](last.scope =>
            /\ leafWaker = last.plainWakers
            /\ \A l \in Leaves : leafWaker[l] \in {"none", "ambient"}
            /\ last.returned = "Pending" => (task = "scheduled" <=> last.plainWoke)
            /\ \A i \in DOMAIN last.frames :
                  last.frames[i][2] = "wake_by_ref" =>
                      /\ leaf[last.frames[i][1]] = "fired"
                      /\ task = "scheduled")
    /\ [][\A l \in Leaves :
            (task = "parked" /\ leaf[l] = "pending" /\ leaf'[l] = "fired")
                => task' = "scheduled"]_vars

\* In one capture step one leaf woke the TracedWaker by reference and
\* another stored its clone.
C14_Witness ==
    /\ last.scope /\ task = "scheduled"
    /\ \E i \in DOMAIN last.frames : last.frames[i][2] = "wake_by_ref"
    /\ \E i \in DOMAIN last.frames :
          /\ last.frames[i][2] = "clone"
          /\ leafWaker[last.frames[i][1]] = "ambient"

\* C15: the requests queued at the start of a drive step are all serviced
\* by it, in arrival order, each by a capture of its own.
C15_DrainedInOrderInStep ==
    last.polled =>
        LET a == last.atStart IN
        /\ \A i \in DOMAIN a : pc[a[i]] # "abandoned" => a[i] \in last.delivered
        /\ \A i, j \in DOMAIN a :
              (i < j /\ capOf[a[j]] # 0 /\ pc[a[i]] # "abandoned")
                  => (capOf[a[i]] # 0 /\ capOf[a[i]] < capOf[a[j]])
        /\ \A i, j \in DOMAIN a :
              (i # j /\ capOf[a[i]] # 0) => capOf[a[i]] # capOf[a[j]]

\* C16: a drive step removes at most one request from the queue, opens at
\* most one capture scope and fulfils at most one reply slot.
C16_AtMostOneCapturePerStep ==
    [][last'.polled =>
          /\ Len(queue') >= Len(queue) - 1
          /\ ncap' <= ncap + 1
          /\ Cardinality({c \in Calls : slot[c] # "fulfilled" /\ slot'[c] = "fulfilled"}) <= 1
          /\ Cardinality(last'.delivered) <= 1]_vars

\* A drive step that started with two queued requests made one capture and
\* left one request queued.
C16_Witness ==
    /\ last.polled /\ Len(last.atStart) = 2
    /\ Len(queue) = 1 /\ ncap = 1 /\ Cardinality(last.delivered) = 1

\* C17: Trace::leaf runs only under the TracedWaker inside the capture
\* scope; the pending-check on the request channel is given the ambient
\* waker and records no frame when it registers it, in either branch.
C17_FramesOnlyInScope ==
    last.polled =>
        /\ last.checkCx = "ambient"
        /\ ~last.checkLeaf
        /\ last.leafCalls > 0 => (last.scope /\ last.cx = "traced")
        /\ last.leafCalls = (IF last.scope THEN last.wakerOps ELSE 0)
        /\ recvTask # "traced"

\* The pending-check registered the waker and the leaves used theirs in a
\* step that recorded nothing.
C17_Witness ==
    /\ last.polled /\ ~last.scope /\ recvTask = "ambient"
    /\ last.wakerOps = Cardinality(last.suspended) /\ last.wakerOps > 0
    /\ last.leafCalls = 0
====
